---- MODULE Spec2Model ----
(* tools/png_to_mem.py: PNG -> 64x48 RGB444 memory-initialisation file.     *)
(* The state is the process (argv, the locals of convert_image_to_mem, the  *)
(* output handle, stdout, the exit status) and its environment (the files   *)
(* on disk, whether the disk is read-only, how many writes the device       *)
(* accepts).                                                                *)
EXTENDS Integers, Sequences, FiniteSets, TLC

VARIABLES argv, disk, readonly, quota, pc, img, f, x, y, r, g, b, rgb444,
          stdout, status, raised, run, hist

vars == <<argv, disk, readonly, quota, pc, img, f, x, y, r, g, b, rgb444,
          stdout, status, raised, run, hist>>

----------------------------------------------------------------------------
(* Bounds of the model *)

\* positional arguments given on the command line: 0..MaxArgs
MaxArgs == 3
\* number of distinct input images tried
NumImages == 5
\* number of distinct "device full" points tried
NumQuotas == 3
\* invocations of the program in a row on the same disk
MaxRuns == 2
\* channel samples of the quantizer: every ChanStride-th value and its predecessor
ChanStride == 16

----------------------------------------------------------------------------
(* Program constants *)

\* canvas width: img.size != (64, 48), resize((64, 48)), range(64)
WIDTH == 64
\* canvas height: img.size != (64, 48), resize((64, 48)), range(48)
HEIGHT == 48
\* len(sys.argv) != 3
ARGC == 3
\* field width of the format spec 03X
HEXWIDTH == 3

----------------------------------------------------------------------------
(* Integer bit operations of Python, on non-negative integers *)

ShiftRight(v, n) == v \div (2 ^ n)

ShiftLeft(v, n) == v * (2 ^ n)

RECURSIVE BitOr(_, _)
BitOr(a, c) ==
    IF a = 0 THEN c
    ELSE IF c = 0 THEN a
    ELSE (IF (a % 2 = 1) \/ (c % 2 = 1) THEN 1 ELSE 0)
         + 2 * BitOr(a \div 2, c \div 2)

\* variant: each channel rounded to the nearest 4-bit value instead of truncated
rgb_to_rgb444_rounded(rr, gg, bb) ==
    LET r4 == ShiftRight(rr + 8, 4)
        g4 == ShiftRight(gg + 8, 4)
        b4 == ShiftRight(bb + 8, 4)
    IN  BitOr(BitOr(ShiftLeft(r4, 8), ShiftLeft(g4, 4)), b4)

\* def rgb_to_rgb444(r, g, b)
rgb_to_rgb444(rr, gg, bb) ==
    LET r4 == ShiftRight(rr, 4)
        g4 == ShiftRight(gg, 4)
        b4 == ShiftRight(bb, 4)
    IN  BitOr(BitOr(ShiftLeft(r4, 8), ShiftLeft(g4, 4)), b4)

----------------------------------------------------------------------------
(* f"{rgb444:03X}\n": uppercase hexadecimal, zero-padded to at least 3 digits. *)
(* Strings are sequences of characters: \o concatenates, Len counts them.     *)

HexChars == <<"0", "1", "2", "3", "4", "5", "6", "7",
              "8", "9", "A", "B", "C", "D", "E", "F">>

RECURSIVE HexDigits(_)
HexDigits(n) ==
    IF n < 16 THEN HexChars[n + 1]
    ELSE HexDigits(n \div 16) \o HexChars[(n % 16) + 1]

RECURSIVE ZeroPad(_, _)
ZeroPad(s, width) ==
    IF Len(s) >= width THEN s ELSE ZeroPad("0" \o s, width)

\* variant: format spec X without the zero-padded width
FormatLine_unpadded(n) == HexDigits(n) \o "\n"

FormatLine(n) == ZeroPad(HexDigits(n), HEXWIDTH) \o "\n"

----------------------------------------------------------------------------
(* The image library: decoded images, mode conversion, resize, getpixel *)

\* input images: size, colour mode and pixel content
ImageList ==
    << [w |-> 64,  h |-> 48, mode |-> "RGB",  kind |-> "gradient"],
       [w |-> 128, h |-> 96, mode |-> "RGBA", kind |-> "gradient"],
       [w |-> 1,   h |-> 1,  mode |-> "L",    kind |-> "p123"],
       [w |-> 32,  h |-> 24, mode |-> "RGB",  kind |-> "gradient"],
       [w |-> 64,  h |-> 47, mode |-> "L",    kind |-> "white"],
       [w |-> 65,  h |-> 48, mode |-> "RGBA", kind |-> "red"],
       [w |-> 64,  h |-> 48, mode |-> "RGBA", kind |-> "black"] >>

ImageOf(i) == ImageList[((i - 1) % Len(ImageList)) + 1]

Images == {ImageOf(i) : i \in 1..NumImages}

\* the colour of the source picture at (px, py), before any mode is applied
KindRGB(kind, px, py) ==
    CASE kind = "gradient" -> <<(17 * px + 3 * py) % 256, (19 * py + px + 9) % 256,
                                (px * py + 200) % 256>>
      [] kind = "p123"     -> <<16, 32, 48>>
      [] kind = "white"    -> <<255, 255, 255>>
      [] kind = "red"      -> <<255, 0, 0>>
      [] kind = "black"    -> <<0, 0, 0>>

\* the pixel as stored in the file, in the file's mode
RawPixel(im, px, py) ==
    LET c == KindRGB(im.kind, px, py)
    IN  CASE im.mode = "RGB"  -> c
          [] im.mode = "RGBA" -> c \o <<(px + py) % 256>>
          [] im.mode = "L"    -> <<c[1]>>

\* img.convert("RGB") on one pixel: alpha dropped, grey replicated
ConvertRGB(mode, raw) ==
    CASE mode = "RGB"  -> raw
      [] mode = "RGBA" -> <<raw[1], raw[2], raw[3]>>
      [] mode = "L"    -> <<raw[1], raw[1], raw[1]>>

\* Image.NEAREST: the source coordinate sampled for destination coordinate d
Nearest(d, srcLen, dstLen) == ((2 * d + 1) * srcLen) \div (2 * dstLen)

NoImage == [w |-> 0, h |-> 0, mode |-> "none", kind |-> "none"]

\* the value of the local img before Image.open has returned
NoImg == [w |-> 0, h |-> 0, mode |-> "none", src |-> NoImage, truncated |-> FALSE]

\* Image.open(input_file) on an image file: size and mode of the file, pixel
\* data not yet loaded
Decode(file) ==
    [w |-> file.image.w, h |-> file.image.h, mode |-> file.image.mode,
     src |-> file.image, truncated |-> (file.kind = "truncated")]

\* img.convert("RGB")
ToRGB(im) == [im EXCEPT !.mode = "RGB"]

\* variant: only images larger than the canvas are resized
NeedsResize_shrinkOnly(im) == im.w > WIDTH \/ im.h > HEIGHT

\* img.size != (64, 48)
NeedsResize(im) == <<im.w, im.h>> # <<WIDTH, HEIGHT>>

\* img.resize((64, 48), Image.NEAREST)
Resize(im) == [im EXCEPT !.w = WIDTH, !.h = HEIGHT]

\* img.getpixel((px, py)): out of range raises IndexError
InRange(im, px, py) == px < im.w /\ py < im.h

GetPixel(im, px, py) ==
    LET raw == RawPixel(im.src, Nearest(px, im.src.w, im.w),
                                Nearest(py, im.src.h, im.h))
    IN  IF im.mode = im.src.mode THEN raw ELSE ConvertRGB(im.src.mode, raw)

----------------------------------------------------------------------------
(* Files *)

Paths == {"in.png", "out.mem"}

Absent == [kind |-> "absent", image |-> NoImage, data |-> <<>>]

ImageFile(im) == [kind |-> "image", image |-> im, data |-> <<>>]

\* an image file whose header is intact and whose pixel data is cut short
TruncatedFile(im) == [kind |-> "truncated", image |-> im, data |-> <<>>]

TextFile(d) == [kind |-> "text", image |-> NoImage, data |-> d]

\* A text file's data is the sequence of the strings written to it.

----------------------------------------------------------------------------
(* The process *)

\* sys.argv[k] is argv[k + 1]
input_file == argv[2]

output_file == argv[3]

\* variant: the exception is caught and the conversion carries on
Raise_swallowed(name) ==
    /\ raised' = name
    /\ status' = status
    /\ pc' = "open_output"

\* an uncaught exception: traceback, exit status 1
Raise(name) ==
    /\ raised' = name
    /\ status' = 1
    /\ pc' = "exited"

\* variant: only too few arguments are rejected
WrongArgCount_tooFew == Len(argv) < ARGC

\* if len(sys.argv) != 3: print usage, sys.exit(1)
WrongArgCount == Len(argv) # ARGC

UsageExit ==
    /\ pc = "main"
    /\ WrongArgCount
    /\ stdout' = Append(stdout, <<"Usage: python png_to_mem.py input.png output.mem">>)
    /\ status' = 1
    /\ pc' = "exited"
    /\ UNCHANGED <<argv, disk, readonly, quota, img, f, x, y, r, g, b, rgb444,
                   raised, run, hist>>

\* convert_image_to_mem(sys.argv[1], sys.argv[2])
CallConvert ==
    /\ pc = "main"
    /\ ~WrongArgCount
    /\ pc' = "open_image"
    /\ UNCHANGED <<argv, disk, readonly, quota, img, f, x, y, r, g, b, rgb444,
                   stdout, status, raised, run, hist>>

\* img = Image.open(input_file)
OpenImage ==
    /\ pc = "open_image"
    /\ disk[input_file].kind \in {"image", "truncated"}
    /\ img' = Decode(disk[input_file])
    /\ pc' = "convert"
    /\ UNCHANGED <<argv, disk, readonly, quota, f, x, y, r, g, b, rgb444,
                   stdout, status, raised, run, hist>>

OpenImageFails ==
    /\ pc = "open_image"
    /\ disk[input_file].kind \notin {"image", "truncated"}
    /\ Raise(IF disk[input_file].kind = "absent" THEN "FileNotFoundError"
                                                 ELSE "UnidentifiedImageError")
    /\ UNCHANGED <<argv, disk, readonly, quota, img, f, x, y, r, g, b, rgb444,
                   stdout, run, hist>>

\* img = img.convert("RGB")
ConvertImage ==
    /\ pc = "convert"
    /\ ~img.truncated
    /\ img' = ToRGB(img)
    /\ pc' = "check_size"
    /\ UNCHANGED <<argv, disk, readonly, quota, f, x, y, r, g, b, rgb444,
                   stdout, status, raised, run, hist>>

ConvertImageFails ==
    /\ pc = "convert"
    /\ img.truncated
    /\ Raise("OSError")
    /\ UNCHANGED <<argv, disk, readonly, quota, img, f, x, y, r, g, b, rgb444,
                   stdout, run, hist>>

\* if img.size != (64, 48): print(...); img = img.resize((64, 48), Image.NEAREST)
ResizeImage ==
    /\ pc = "check_size"
    /\ NeedsResize(img)
    /\ stdout' = Append(stdout, <<"Resizing", input_file>>)
    /\ img' = Resize(img)
    /\ pc' = "open_output"
    /\ UNCHANGED <<argv, disk, readonly, quota, f, x, y, r, g, b, rgb444,
                   status, raised, run, hist>>

KeepImage ==
    /\ pc = "check_size"
    /\ ~NeedsResize(img)
    /\ pc' = "open_output"
    /\ UNCHANGED <<argv, disk, readonly, quota, img, f, x, y, r, g, b, rgb444,
                   stdout, status, raised, run, hist>>

\* the device accepts quota writes and fails the next one; -1: no limit
QuotaOf(i) == ((i - 1) * 1000 + 5) % (WIDTH * HEIGHT)

Quotas == {-1} \cup {QuotaOf(i) : i \in 1..NumQuotas}

\* variant: the destination is opened in append mode
OpenOutput_append ==
    /\ pc = "open_output"
    /\ ~readonly
    /\ disk' = [disk EXCEPT ![output_file] =
                    IF @.kind = "text" THEN @ ELSE TextFile(<<>>)]
    /\ f' = "open"
    /\ y' = 0
    /\ x' = 0
    /\ pc' = "write"
    /\ UNCHANGED <<argv, readonly, quota, img, r, g, b, rgb444,
                   stdout, status, raised, run, hist>>

\* with open(output_file, 'w') as f: the file is created or truncated
OpenOutput ==
    /\ pc = "open_output"
    /\ ~readonly
    /\ disk' = [disk EXCEPT ![output_file] = TextFile(<<>>)]
    /\ f' = "open"
    /\ y' = 0
    /\ x' = 0
    /\ pc' = "write"
    /\ UNCHANGED <<argv, readonly, quota, img, r, g, b, rgb444,
                   stdout, status, raised, run, hist>>

OpenOutputFails ==
    /\ pc = "open_output"
    /\ readonly
    /\ Raise("PermissionError")
    /\ UNCHANGED <<argv, disk, readonly, quota, img, f, x, y, r, g, b, rgb444,
                   stdout, run, hist>>

\* variant: range(47)
LoopDone_short(yy) == yy >= HEIGHT - 1

\* for y in range(48): y counts the rows visited so far, the next row to visit
LoopDone(yy) == yy >= HEIGHT

\* variant: range(63)
Columns_short == 0..(WIDTH - 2)

\* for x in range(64): the columns visited in a row, in increasing order
Columns == 0..(WIDTH - 1)

\* variant: a plain open() without with: nothing closes the handle
ExitWith_leak == f' = f

\* leaving the with block, normally or by an exception, closes the handle
ExitWith == f' = "closed"

\* variant: img.getpixel((y, x))
PixelCoord_swapped(xx, yy) == <<yy, xx>>

\* the coordinate handed to getpixel: img.getpixel((x, y))
PixelCoord(xx, yy) == <<xx, yy>>

\* r, g, b = img.getpixel((x, y)) succeeds: in range, and three values to unpack
Readable(im, xx, yy) ==
    /\ InRange(im, PixelCoord(xx, yy)[1], PixelCoord(xx, yy)[2])
    /\ Len(GetPixel(im, PixelCoord(xx, yy)[1], PixelCoord(xx, yy)[2])) = 3

\* rgb_to_rgb444(r, g, b) of the pixel fetched for loop variables (xx, yy)
Quantized(im, xx, yy) ==
    LET p == GetPixel(im, PixelCoord(xx, yy)[1], PixelCoord(xx, yy)[2])
    IN  rgb_to_rgb444(p[1], p[2], p[3])

\* the number of f.write calls made so far in this run
Written == Len(disk[output_file].data)

\* the strings the first n iterations of the inner loop write for row yy
RowLines(im, yy, n) == [i \in 1..n |-> FormatLine(Quantized(im, i - 1, yy))]

\* the first column of row yy whose pixel cannot be read, or one past the last
FirstUnreadable(im, yy) ==
    LET bad == {xx \in Columns : ~Readable(im, xx, yy)}
    IN  IF bad = {} THEN WIDTH
        ELSE CHOOSE xx \in bad : \A x2 \in bad : xx <= x2

\* the number of writes the device still accepts
Accepted == IF quota = -1 THEN WIDTH ELSE IF quota > Written THEN quota - Written ELSE 0

\* the number of iterations of the inner loop that complete in row yy
RowProgress(im, yy) ==
    LET u == FirstUnreadable(im, yy)
        m == IF u < Accepted THEN u ELSE Accepted
    IN  IF m < Cardinality(Columns) THEN m ELSE Cardinality(Columns)

\* One pass of the inner loop over a row, every iteration of which succeeds:
\* r, g, b = img.getpixel((x, y)); rgb444 = rgb_to_rgb444(r, g, b);
\* f.write(f"{rgb444:03X}\n").
\* Afterwards x, r, g, b, rgb444 hold the values of the last iteration.
WriteRow ==
    /\ pc = "write"
    /\ ~LoopDone(y)
    /\ RowProgress(img, y) = Cardinality(Columns)
    /\ LET n == Cardinality(Columns)
           p == GetPixel(img, PixelCoord(n - 1, y)[1], PixelCoord(n - 1, y)[2])
       IN  /\ disk' = [disk EXCEPT ![output_file].data = @ \o RowLines(img, y, n)]
           /\ x' = n - 1
           /\ r' = p[1]
           /\ g' = p[2]
           /\ b' = p[3]
           /\ rgb444' = Quantized(img, n - 1, y)
    /\ y' = y + 1
    /\ UNCHANGED <<argv, readonly, quota, pc, img, f, stdout, status, raised,
                   run, hist>>

\* A pass of the inner loop in which an iteration raises inside the with
\* block: getpixel is out of range (IndexError), its result does not unpack
\* into three values (ValueError), or the device refuses the write (OSError).
\* The iterations before it have written their lines; the handle is closed on
\* the way out and the exception propagates.
BodyRaises ==
    /\ pc = "write"
    /\ ~LoopDone(y)
    /\ RowProgress(img, y) < Cardinality(Columns)
    /\ LET n == RowProgress(img, y)
           readFails == n = FirstUnreadable(img, y)
           last == IF readFails THEN n - 1 ELSE n
       IN  /\ disk' = [disk EXCEPT ![output_file].data = @ \o RowLines(img, y, n)]
           /\ x' = n
           /\ IF last >= 0
              THEN LET p == GetPixel(img, PixelCoord(last, y)[1],
                                          PixelCoord(last, y)[2])
                   IN  /\ r' = p[1]
                       /\ g' = p[2]
                       /\ b' = p[3]
                       /\ rgb444' = Quantized(img, last, y)
              ELSE UNCHANGED <<r, g, b, rgb444>>
           /\ Raise(IF ~readFails THEN "OSError"
                    ELSE IF InRange(img, PixelCoord(n, y)[1], PixelCoord(n, y)[2])
                         THEN "ValueError" ELSE "IndexError")
    /\ ExitWith
    /\ UNCHANGED <<argv, readonly, quota, img, y, stdout, run, hist>>

\* the end of the with block after the last iteration
CloseOutput ==
    /\ pc = "write"
    /\ LoopDone(y)
    /\ ExitWith
    /\ pc' = "print"
    /\ UNCHANGED <<argv, disk, readonly, quota, img, x, y, r, g, b, rgb444,
                   stdout, status, raised, run, hist>>

\* print(f"Converted {input_file} -> {output_file}"), return, exit status 0
PrintConverted ==
    /\ pc = "print"
    /\ stdout' = Append(stdout, <<"Converted", input_file, output_file>>)
    /\ status' = 0
    /\ pc' = "exited"
    /\ hist' = Append(hist, [run |-> run, image |-> img.src,
                             data |-> disk[output_file].data])
    /\ UNCHANGED <<argv, disk, readonly, quota, img, f, x, y, r, g, b, rgb444,
                   raised, run>>

\* the program is invoked again with the same command line on the same disk
Rerun ==
    /\ pc = "exited"
    /\ run < MaxRuns
    /\ run' = run + 1
    /\ pc' = "main"
    /\ img' = NoImg
    /\ f' = "none"
    /\ x' = 0
    /\ y' = 0
    /\ r' = 0
    /\ g' = 0
    /\ b' = 0
    /\ rgb444' = 0
    /\ stdout' = <<>>
    /\ status' = -1
    /\ raised' = "none"
    /\ UNCHANGED <<argv, disk, readonly, quota, hist>>

----------------------------------------------------------------------------
(* The program run from the command line *)

ProgName == "png_to_mem.py"

RECURSIVE ArgLists(_)
ArgLists(n) ==
    IF n = 0 THEN {<<>>}
    ELSE ArgLists(n - 1) \cup
         {Append(a, p) : a \in {a \in ArgLists(n - 1) : Len(a) = n - 1}, p \in Paths}

InputFiles ==
    {Absent, TextFile(<<"not a png">>),
     TruncatedFile(ImageOf(1))} \cup {ImageFile(im) : im \in Images}

OutputFiles == {Absent, TextFile(<<"old\n">>)}

Fresh ==
    /\ pc = "main"
    /\ img = NoImg
    /\ f = "none"
    /\ x = 0
    /\ y = 0
    /\ r = 0
    /\ g = 0
    /\ b = 0
    /\ rgb444 = 0
    /\ stdout = <<>>
    /\ status = -1
    /\ raised = "none"
    /\ run = 1
    /\ hist = <<>>

Init ==
    /\ argv \in {<<ProgName>> \o a : a \in ArgLists(MaxArgs)}
    /\ \E fin \in InputFiles, fout \in OutputFiles :
           disk = [p \in Paths |-> IF p = "in.png" THEN fin ELSE fout]
    /\ readonly \in BOOLEAN
    /\ quota \in Quotas
    /\ Fresh

Next ==
    \/ UsageExit
    \/ CallConvert
    \/ OpenImage
    \/ OpenImageFails
    \/ ConvertImage
    \/ ConvertImageFails
    \/ ResizeImage
    \/ KeepImage
    \/ OpenOutput
    \/ OpenOutputFails
    \/ WriteRow
    \/ BodyRaises
    \/ CloseOutput
    \/ PrintConverted
    \/ Rerun

Spec == Init /\ [][Next]_vars

----------------------------------------------------------------------------
(* One pixel through the quantizer and the formatter, for sampled channels *)

ChanSamples ==
    {v \in 0..255 : v % ChanStride \in {0, ChanStride - 1}} \cup {16, 32, 48, 255}

InitQ ==
    /\ argv = <<ProgName, "in.png", "out.mem">>
    /\ disk = [p \in Paths |-> IF p = "in.png" THEN Absent ELSE TextFile(<<>>)]
    /\ readonly = FALSE
    /\ quota = -1
    /\ pc = "quantize"
    /\ img = NoImg
    /\ f = "open"
    /\ x = 0
    /\ y = 0
    /\ r \in ChanSamples
    /\ g \in ChanSamples
    /\ b \in ChanSamples
    /\ rgb444 = 0
    /\ stdout = <<>>
    /\ status = -1
    /\ raised = "none"
    /\ run = 1
    /\ hist = <<>>

\* rgb444 = rgb_to_rgb444(r, g, b)
QuantizePixel ==
    /\ pc = "quantize"
    /\ rgb444' = rgb_to_rgb444(r, g, b)
    /\ pc' = "format"
    /\ UNCHANGED <<argv, disk, readonly, quota, img, f, x, y, r, g, b,
                   stdout, status, raised, run, hist>>

\* f.write(f"{rgb444:03X}\n")
WriteCode ==
    /\ pc = "format"
    /\ disk' = [disk EXCEPT ![output_file].data = Append(@, FormatLine(rgb444))]
    /\ pc' = "written"
    /\ UNCHANGED <<argv, readonly, quota, img, f, x, y, r, g, b, rgb444,
                   stdout, status, raised, run, hist>>

NextQ ==
    \/ QuantizePixel
    \/ WriteCode

SpecQ == InitQ /\ [][NextQ]_vars

----------------------------------------------------------------------------
(* Vocabulary of the properties *)

\* the conversion ran to its end: the loop finished and the handle was closed
Completed == pc = "print" \/ (pc = "exited" /\ status = 0)

\* what has been written to the destination (defined once two paths are given)
Output == disk[argv[3]].data

UpperHex == {"0", "1", "2", "3", "4", "5", "6", "7",
             "8", "9", "A", "B", "C", "D", "E", "F"}

\* the strings made of three uppercase hexadecimal digits and a line terminator
HexRecords == {c1 \o c2 \o c3 \o "\n" : c1 \in UpperHex, c2 \in UpperHex, c3 \in UpperHex}

UsageNotice == <<"Usage: python png_to_mem.py input.png output.mem">>

Notices(kind) == {i \in 1..Len(stdout) : stdout[i][1] = kind}

\* the line the canvas pixel of 0-indexed line number n must produce
CanvasLine(n) ==
    LET p == GetPixel(img, n % 64, n \div 64)
    IN  FormatLine(rgb_to_rgb444(p[1], p[2], p[3]))

\* the line a pixel of the decoded source image produces once converted to RGB
SourceRGB(px, py) == ConvertRGB(img.src.mode, RawPixel(img.src, px, py))

SourceLine(px, py) ==
    FormatLine(rgb_to_rgb444(SourceRGB(px, py)[1], SourceRGB(px, py)[2],
                             SourceRGB(px, py)[3]))

----------------------------------------------------------------------------
(* C1: for every 8-bit (r, g, b), rgb_to_rgb444 packs the top four bits of   *)
(* each channel, truncated and never rounded, as r4*256 + g4*16 + b4: each   *)
(* 4-bit channel is in 0..15 (255 -> 15, 0 -> 0), the code is in 0..4095,    *)
(* and (16, 32, 48) gives 0x123.                                             *)
C1_Quantize ==
    pc \in {"format", "written"} =>
        /\ rgb444 \in 0..4095
        /\ rgb444 = 256 * (r \div 16) + 16 * (g \div 16) + (b \div 16)
        /\ LET r4 == rgb444 \div 256
               g4 == (rgb444 \div 16) % 16
               b4 == rgb444 % 16
           IN  /\ r4 \in 0..15 /\ g4 \in 0..15 /\ b4 \in 0..15
               /\ 16 * r4 <= r /\ r < 16 * r4 + 16
               /\ 16 * g4 <= g /\ g < 16 * g4 + 16
               /\ 16 * b4 <= b /\ b < 16 * b4 + 16
               /\ (r = 255 => r4 = 15) /\ (r = 0 => r4 = 0)
               /\ (g = 255 => g4 = 15) /\ (g = 0 => g4 = 0)
               /\ (b = 255 => b4 = 15) /\ (b = 0 => b4 = 0)
        /\ (<<r, g, b>> = <<16, 32, 48>> => rgb444 = 291)

C1_Witness ==
    /\ pc = "format"
    /\ <<r, g, b>> = <<16, 32, 48>>
    /\ rgb444 = 291

(* C2: a conversion that completes has written exactly 3072 lines, whatever  *)
(* the dimensions of the source image.                                       *)
C2_LineCount ==
    Completed =>
        /\ Len(Output) = 3072
        /\ \A i \in 1..Len(Output) : Output[i] \in HexRecords

C2_Witness ==
    /\ Completed
    /\ <<img.src.w, img.src.h>> # <<64, 48>>
    /\ Len(Output) = 3072

(* C3: lines are written in row-major order with no header or footer: line  *)
(* N (0-indexed) holds the code of the canvas pixel at row N div 64, column  *)
(* N mod 64, and every canvas pixel is written exactly once.                 *)
C3_RowMajor ==
    /\ f # "none" =>
           \A n \in (IF pc = "write" /\ Len(Output) > 64
                     THEN Len(Output) - 64 ELSE 0)..(Len(Output) - 1) :
               Output[n + 1] = CanvasLine(n)
    /\ Completed =>
           /\ DOMAIN Output = 1..(64 * 48)
           /\ \A n \in 0..(64 * 48 - 1) : Output[n + 1] = CanvasLine(n)

C3_Witness ==
    /\ Completed
    /\ img.src.kind = "gradient"
    /\ Output[1] # Output[2]
    /\ Output[2] # Output[66]
    /\ Output[65] = CanvasLine(64)

(* C4: every line written is exactly three characters drawn from 0-9 and    *)
(* A-F, uppercase and zero-padded, followed by one line terminator, for      *)
(* every code in 0..4095: 0 is written "000", 4095 is written "FFF".         *)
C4_ThreeHexDigits ==
    pc = "written" =>
        /\ Len(Output) = 1
        /\ Len(Output[1]) = 4
        /\ Output[1] \in HexRecords
        /\ (rgb444 = 0 => Output[1] = "000\n")
        /\ (rgb444 = 4095 => Output[1] = "FFF\n")
        /\ (rgb444 = 291 => Output[1] = "123\n")
        /\ (rgb444 = 10 => Output[1] = "00A\n")

C4_Witness ==
    /\ pc = "written"
    /\ rgb444 = 4095
    /\ Output = <<"FFF\n">>

(* C5: with a number of positional arguments other than two the program      *)
(* prints the usage message, exits with status 1 and never starts the        *)
(* conversion (no image opened, no file created or written); with exactly    *)
(* two it converts the first path into the second.                           *)
C5_Usage ==
    /\ [](Len(argv) - 1 # 2 =>
            /\ pc \in {"main", "exited"}
            /\ img = NoImg
            /\ f = "none"
            /\ pc = "exited" => (stdout = <<UsageNotice>> /\ status = 1))
    /\ [][/\ Len(argv) - 1 # 2 => disk' = disk
          /\ (Len(argv) - 1 = 2 /\ pc = "main" /\ pc' # pc) =>
                 (pc' = "open_image" /\ stdout' = <<>>)
          /\ (pc = "open_image" /\ pc' = "convert") =>
                 img'.src = disk[argv[2]].image
          /\ (pc = "open_output" /\ pc' = "write") =>
                 /\ disk'[argv[3]] = TextFile(<<>>)
                 /\ \A q \in Paths \ {argv[3]} : disk'[q] = disk[q]]_vars

C5_Witness ==
    /\ Len(argv) - 1 = 3
    /\ pc = "exited"
    /\ stdout = <<UsageNotice>>
    /\ status = 1
    /\ disk["out.mem"] = Absent

(* C6: the conversion is deterministic: two runs on the same input image     *)
(* leave byte-identical output files.                                        *)
C6_Deterministic ==
    \A i \in DOMAIN hist : \A j \in DOMAIN hist :
        hist[i].image = hist[j].image => hist[i].data = hist[j].data

C6_Witness ==
    /\ Len(hist) = 2
    /\ hist[1].run = 1
    /\ hist[2].run = 2
    /\ hist[1].image = hist[2].image
    /\ Len(hist[2].data) > 0

(* C7 as stated: the output file is a sequence of 4096 lines.                *)
C7_Original ==
    Completed => Len(Output) = 4096

(* C7: the output file is an ordered sequence of 3072 (64 x 48) text lines,  *)
(* one per quantized pixel code, visited in row-major order (y from 0 to 47, *)
(* x from 0 to 63 within each row).                                          *)
C7_Sequence3072 ==
    /\ [](pc = "write" =>
            /\ x \in 0..63
            /\ y \in 0..48
            /\ Len(Output) = 64 * y
            /\ Len(Output) <= 3072)
    /\ [](Completed => (Len(Output) = 3072 /\ Len(Output) = 64 * 48))
    /\ [][(pc = "write" /\ pc' = "write") =>
             /\ Len(disk'[argv[3]].data) = Len(Output) + 64
             /\ \A i \in 1..Len(Output) : disk'[argv[3]].data[i] = Output[i]
             /\ \A i \in 1..64 : disk'[argv[3]].data[64 * y + i] \in HexRecords
             /\ rgb444' \in 0..4095
             /\ x' = 63
             /\ y' = y + 1]_vars

C7_Witness ==
    /\ pc = "write"
    /\ x = 63
    /\ y = 48
    /\ Len(Output) = 3072

(* C8: the canvas is resampled (nearest neighbour, to 64 x 48) if and only   *)
(* if the decoded dimensions differ from (64, 48); when they match, the      *)
(* pixels serialized are the decoded RGB pixels unchanged. The resize notice *)
(* is emitted exactly when resampling occurs, and the canvas that reaches    *)
(* the serializer is 64 columns by 48 rows in both cases.                    *)
C8_ResizeIff ==
    /\ pc \in {"open_output", "write", "print"} =>
           /\ <<img.w, img.h>> = <<64, 48>>
           /\ Cardinality(Notices("Resizing")) =
                  (IF <<img.src.w, img.src.h>> = <<64, 48>> THEN 0 ELSE 1)
    /\ pc \in {"main", "open_image", "convert", "check_size"} =>
           Notices("Resizing") = {}
    /\ Completed =>
           \A n \in 0..(Len(Output) - 1) :
               Output[n + 1] =
                   IF <<img.src.w, img.src.h>> = <<64, 48>>
                   THEN SourceLine(n % 64, n \div 64)
                   ELSE SourceLine(((2 * (n % 64) + 1) * img.src.w) \div 128,
                                   ((2 * (n \div 64) + 1) * img.src.h) \div 96)

C8_Witness ==
    /\ Completed
    /\ <<img.src.w, img.src.h>> = <<128, 96>>
    /\ stdout[1] = <<"Resizing", "in.png">>
    /\ Output[2] = SourceLine(3, 1)

(* C9: the destination handle is always released: once opened it is closed   *)
(* when the writing stage ends, by completion or by a failure in the loop    *)
(* body; no execution terminates with it open, and the confirmation notice   *)
(* is emitted only after the close and only when all lines were written.     *)
C9_HandleReleased ==
    /\ [](/\ f = "open" <=> pc = "write"
          /\ pc = "exited" => f # "open"
          /\ pc \in {"print", "exited"} /\ Len(argv) = 3 /\ f # "none" => f = "closed"
          /\ Notices("Converted") # {} =>
                 (f = "closed" /\ Len(Output) = 3072 /\ raised = "none"))
    /\ [][/\ (f = "open" /\ pc' # "write") => f' = "closed"
          /\ Notices("Converted")' # Notices("Converted") =>
                 (f = "closed" /\ Len(Output) = 3072)]_vars

C9_Witness ==
    /\ pc = "exited"
    /\ raised = "OSError"
    /\ f = "closed"
    /\ Len(Output) = 5
    /\ Notices("Converted") = {}

(* C10: stages run strictly in the order decode -> normalize -> open         *)
(* destination -> write -> close, and every failure is fatal with no retry:  *)
(* when decoding or normalizing fails the conversion aborts before the       *)
(* destination is opened, so the output path is neither created nor          *)
(* truncated nor written and no confirmation is emitted.                     *)
StageOrder ==
    {<<"main", "open_image">>, <<"open_image", "convert">>,
     <<"convert", "check_size">>, <<"check_size", "open_output">>,
     <<"open_output", "write">>, <<"write", "write">>, <<"write", "print">>,
     <<"print", "exited">>}

C10_FailFast ==
    /\ [](pc \in {"main", "open_image", "convert", "check_size", "open_output"} =>
            (f = "none" /\ raised = "none"))
    /\ [](raised # "none" =>
            (pc = "exited" /\ status = 1 /\ Notices("Converted") = {}))
    /\ [][/\ pc' # pc =>
                \/ <<pc, pc'>> \in StageOrder
                \/ pc' = "exited" /\ raised' # "none"
                \/ pc = "main" /\ pc' = "exited" /\ Len(argv) # 3
                \/ pc = "exited" /\ pc' = "main" /\ run' = run + 1
          /\ pc \in {"main", "open_image", "convert", "check_size"} =>
                (disk' = disk /\ f' = "none")
          /\ (pc \in {"open_image", "convert"} /\ pc' = "exited") =>
                (raised' # "none" /\ status' = 1 /\ stdout' = stdout)
          /\ raised # "none" => (pc' = "main" \/ UNCHANGED vars)]_vars

C10_Witness ==
    /\ pc = "exited"
    /\ raised = "UnidentifiedImageError"
    /\ argv = <<ProgName, "in.png", "out.mem">>
    /\ disk["out.mem"] = TextFile(<<"old\n">>)
    /\ f = "none"
    /\ stdout = <<>>

====
